---- MODULE Spec2Model ----
(***************************************************************************)
(* The acquisition-and-cache pipeline of stock-ohlc-analysis.              *)
(*                                                                         *)
(* Three scripts of the repository obtain the price frame:                 *)
(*   "main"      fetch_and_cache_data of src/main.py (line 223)            *)
(*   "workflow"  fetch_and_cache_data of src/.github/workflows/main.py     *)
(*   "script"    the module-level steps 1-2 of src/stock_analysis.py       *)
(* and three functions clean it (preprocess_data of src/main.py line 10,   *)
(* of src/main.py line 293 and of src/.github/workflows/main.py).          *)
(*                                                                         *)
(* Time stamps are hours: a naive stamp is a wall-clock hour count, an     *)
(* aware stamp is an hour count in UTC together with the zone of the       *)
(* column.  A day d is the hours 24*d .. 24*d+23.  Dates that the code     *)
(* compares as '%Y-%m-%d' strings are compared here as day numbers.        *)
(***************************************************************************)
EXTENDS Integers, Sequences, FiniteSets, TLC

\* ---------------------------------------------------------------- constants

MAX_RETRIES == 3
RETRY_DELAY == 5
\* UTC offset, in hours, of pytz.timezone('Asia/Hong_Kong')
HONG_KONG_TZ == 8

\* ------------------------------------------------------------------- bounds

\* requested and delivered days are 1..MaxDay
MaxDay == 2
\* calls of the fetch step made by one caller
MaxCalls == 2
\* the staleness window of the specification, in clock ticks
MaxStalenessSeconds == 1
\* the clock stops after the window has passed by one tick
MaxClock == MaxStalenessSeconds + 1

Procs == {1, 2}
Solo == {1}
Variants == {"main", "workflow", "script"}
FetchVariants == {"main", "workflow"}

NoErr == "none"
\* a stretch of a file that no writer has filled (bytes past a truncation)
Hole == [k |-> "hole"]
\* the frame variable before any frame is bound to it
NoFrame == [cols |-> {}, tz |-> "naive", rows |-> <<>>]

\* ------------------------------------------------------------ frames and CSV

TitleCols == {"Open", "High", "Low", "Close"}
LowerCols == {"open", "high", "low", "close"}

\* str.capitalize on a column label
Capitalize(c) ==
  CASE c = "open" -> "Open"
    [] c = "high" -> "High"
    [] c = "low" -> "Low"
    [] c = "close" -> "Close"
    [] c = "date" -> "Date"
    [] OTHER -> c

\* UTC offset of a zone label; a naive column has none
Offset(tz) ==
  CASE tz = "HK" -> HONG_KONG_TZ
    [] tz = "+08:00" -> HONG_KONG_TZ
    [] OTHER -> 0

\* the calendar day strftime('%Y-%m-%d') prints for a stamp of a column
LocalDay(tz, t) == (t + Offset(tz)) \div 24

\* the price payload the provider quotes for a day
Price(d) == 100 + d

\* the rows the provider returns for the days a..b: naive midnight stamps
RECURSIVE Bars(_, _)
Bars(a, b) == IF a > b THEN <<>> ELSE <<[t |-> 24 * a, px |-> Price(a)]>> \o Bars(a + 1, b)

\* the offset text to_csv prints after a stamp
OffsetText(tz) ==
  CASE tz = "naive" -> ""
    [] tz = "UTC" -> "+00:00"
    [] OTHER -> "+08:00"

\* a save that prints the stamps without their offset
ToCsvNoOffset(f) ==
  <<[k |-> "hdr", hdr |-> f.cols]>> \o
  [i \in 1..Len(f.rows) |->
     [k |-> "row", wall |-> f.rows[i].t + Offset(f.tz), off |-> "", px |-> f.rows[i].px]]

\* DataFrame.to_csv(index=False): a header line, then one line per row holding
\* the wall-clock stamp with its offset text
ToCsv(f) ==
  <<[k |-> "hdr", hdr |-> f.cols]>> \o
  [i \in 1..Len(f.rows) |->
     [k |-> "row", wall |-> f.rows[i].t + Offset(f.tz), off |-> OffsetText(f.tz),
      px |-> f.rows[i].px]]

IsHeader(l) == l.k = "hdr"
IsRow(l) == l.k = "row"

ZoneOfText(off) ==
  CASE off = "" -> "naive"
    [] off = "+00:00" -> "UTC"
    [] OTHER -> "+08:00"

\* pd.read_csv(cache_file, parse_dates=["Date"]): the frame, or the error raised
ReadCsv(lines) ==
  IF lines = <<>> THEN [err |-> "EmptyDataError", frame |-> NoFrame]
  ELSE IF ~IsHeader(lines[1]) \/ \E i \in 2..Len(lines) : ~IsRow(lines[i])
    THEN [err |-> "ParserError", frame |-> NoFrame]
  ELSE IF "Date" \notin lines[1].hdr THEN [err |-> "ValueError:parse_dates", frame |-> NoFrame]
  ELSE
    LET offs == {lines[i].off : i \in 2..Len(lines)}
        tz == IF offs = {} THEN "naive"
              ELSE IF Cardinality(offs) > 1 THEN "mixed"
              ELSE ZoneOfText(CHOOSE o \in offs : TRUE)
    IN [err |-> NoErr,
        frame |-> [cols |-> lines[1].hdr,
                   tz |-> tz,
                   rows |-> [i \in 1..(Len(lines) - 1) |->
                               [t |-> lines[i + 1].wall - Offset(ZoneOfText(lines[i + 1].off)),
                                px |-> lines[i + 1].px]]]]

Days(f) == {LocalDay(f.tz, f.rows[i].t) : i \in 1..Len(f.rows)}
MinOf(S) == CHOOSE x \in S : \A y \in S : x <= y
MaxOf(S) == CHOOSE x \in S : \A y \in S : x >= y

\* ------------------------------------------------------------------- state

VARIABLES
  variant,   \* the script that runs
  now,       \* the wall clock
  cache,     \* the cache file: whether it exists, its lines, its last-modified time
  pc,        \* where each caller stands in the fetch step
  req,       \* start_date and end_date of the call
  attempt,   \* the loop variable of the retry loop
  df,        \* the frame variable of the call
  err,       \* the exception raised (kind) and the exception it wraps (cause)
  wpos,      \* lines the open to_csv has written so far
  slept,     \* seconds the call has spent in time.sleep
  calls,     \* calls made so far
  h,         \* what the call has met so far (history)
  prev,      \* the previous call of the caller (history)
  entries,   \* every complete content the cache file was given (history)
  batch,     \* the frame handed to preprocess_data
  cleaner,   \* the preprocess_data that ran on it
  out,       \* what preprocess_data did: the frame it returned, or how it failed
  again      \* what preprocess_data did when handed the frame it had returned

fetchVars == <<variant, now, cache, pc, req, attempt, df, err, wpos, slept, calls, h, prev, entries>>
cleanVars == <<batch, cleaner, out, again>>
vars == <<fetchVars, cleanVars>>

Requests == {r \in [start : 1..MaxDay, end : 1..MaxDay] : r.start <= r.end}

\* ------------------------------------------------------------ the provider

\* yf.download(ticker, start, end): it raises, or returns a frame indexed by
\* Date.  The provider is a black box: the frame is empty, or holds the days
\* start..end, or start..end-1 (the provider's end is exclusive); its labels are
\* title-case or lower-case, or lack Close; its index is naive or aware.
RemoteOutcomes(r) ==
  {[raises |-> TRUE, cols |-> {}, tz |-> "naive", rows |-> <<>>]} \cup
  {[raises |-> FALSE, cols |-> c, tz |-> z, rows |-> Bars(r.start, e)] :
     c \in {TitleCols, LowerCols, TitleCols \ {"Close"}},
     z \in {"naive", "UTC"},
     e \in {r.start - 1, r.end - 1, r.end}}

\* Index.tz_localize('UTC').tz_convert(tz): a naive stamp is read as UTC; an
\* aware column makes tz_localize raise TypeError
Localize(f) ==
  IF f.tz = "naive" THEN [err |-> NoErr, frame |-> [f EXCEPT !.tz = "HK"]]
  ELSE [err |-> "TypeError", frame |-> NoFrame]

\* df.reset_index(): the Date index becomes a column
ResetIndex(f) == [f EXCEPT !.cols = @ \cup {"Date"}]

\* the body of one attempt of src/main.py, from the download to the frame to save
AttemptMain(o) ==
  IF o.raises THEN [err |-> "RemoteError", frame |-> NoFrame]
  ELSE IF o.rows = <<>> THEN [err |-> "ValueError:empty", frame |-> NoFrame]
  ELSE IF ~(TitleCols \subseteq o.cols) THEN [err |-> "ValueError:columns", frame |-> NoFrame]
  ELSE LET l == Localize(o)
       IN IF l.err # NoErr THEN l ELSE [err |-> NoErr, frame |-> ResetIndex(l.frame)]

\* the body of one attempt of src/.github/workflows/main.py
AttemptWorkflow(o) ==
  IF o.raises THEN [err |-> "RemoteError", frame |-> NoFrame]
  ELSE IF o.rows = <<>> THEN [err |-> "ValueError:empty", frame |-> NoFrame]
  ELSE LET c == [o EXCEPT !.cols = {Capitalize(x) : x \in ResetIndex(o).cols}]
       IN IF ~((TitleCols \cup {"Date"}) \subseteq c.cols)
            THEN [err |-> "ValueError:columns", frame |-> NoFrame]
          ELSE Localize(c)

\* step 2 of src/stock_analysis.py: the frame is saved as downloaded
AttemptScript(o) ==
  IF o.raises THEN [err |-> "RemoteError", frame |-> NoFrame]
  ELSE [err |-> NoErr, frame |-> ResetIndex(o)]

\* a try body that saves whatever non-empty frame the download returned
AttemptBodyUnvalidated(v, o) ==
  IF o.raises THEN [err |-> "RemoteError", frame |-> NoFrame]
  ELSE IF o.rows = <<>> THEN [err |-> "ValueError:empty", frame |-> NoFrame]
  ELSE LET l == Localize(o)
       IN IF l.err # NoErr THEN l ELSE [err |-> NoErr, frame |-> ResetIndex(l.frame)]

\* the download returned rows and, whatever the case of its labels, not all of
\* Open, High, Low and Close
LacksColumn(o) ==
  ~o.raises /\ o.rows # <<>> /\ ~(TitleCols \subseteq {Capitalize(c) : c \in o.cols})

AttemptBody(v, o) ==
  CASE v = "main" -> AttemptMain(o)
    [] v = "workflow" -> AttemptWorkflow(o)
    [] OTHER -> AttemptScript(o)

\* an off-by-one retry bound
HasAttemptsLeftOffByOne(v, a) == v \in FetchVariants /\ a < MAX_RETRIES

\* `attempt < MAX_RETRIES - 1`: another attempt follows the failed one.
\* src/stock_analysis.py downloads once.
HasAttemptsLeft(v, a) == v \in FetchVariants /\ a < MAX_RETRIES - 1

\* ----------------------------------------------------------- the cache read

\* `min_date >= start_date and max_date <= end_date` of src/main.py
RangeOkMain(f, r) == MinOf(Days(f)) >= r.start /\ MaxOf(Days(f)) <= r.end

\* `min_cache_date <= start_date and max_cache_date >= end_date` of the workflow
RangeOkWorkflow(f, r) == MinOf(Days(f)) <= r.start /\ MaxOf(Days(f)) >= r.end

\* The cache read of a file that exists: "hit" (the frame is returned), "miss"
\* (the download follows) or "raise" (the exception leaves the function).
CacheReadMain(lines, r) ==
  LET c == ReadCsv(lines) IN
  IF c.err # NoErr THEN [k |-> "raise", err |-> c.err, frame |-> NoFrame]
  ELSE IF c.frame.rows = <<>> THEN [k |-> "raise", err |-> "ValueError:empty", frame |-> NoFrame]
  ELSE IF ~(TitleCols \subseteq c.frame.cols)
    THEN [k |-> "raise", err |-> "ValueError:columns", frame |-> NoFrame]
  ELSE IF c.frame.tz = "mixed" THEN [k |-> "raise", err |-> "AttributeError", frame |-> NoFrame]
  ELSE IF RangeOkMain(c.frame, r) THEN [k |-> "hit", err |-> NoErr, frame |-> c.frame]
  ELSE [k |-> "miss", err |-> NoErr, frame |-> c.frame]

CacheReadWorkflow(lines, r) ==
  LET c == ReadCsv(lines) IN
  IF c.err # NoErr THEN [k |-> "raise", err |-> c.err, frame |-> NoFrame]
  ELSE IF c.frame.rows = <<>> THEN [k |-> "raise", err |-> "ValueError:empty", frame |-> NoFrame]
  ELSE IF ~((TitleCols \cup {"Date"}) \subseteq c.frame.cols)
    THEN [k |-> "raise", err |-> "ValueError:columns", frame |-> NoFrame]
  ELSE IF c.frame.tz = "mixed" THEN [k |-> "raise", err |-> "AttributeError", frame |-> NoFrame]
  ELSE IF ~RangeOkWorkflow(c.frame, r)
    THEN [k |-> "raise", err |-> "ValueError:range", frame |-> NoFrame]
  ELSE [k |-> "hit", err |-> NoErr, frame |-> c.frame]

\* step 1 of src/stock_analysis.py: whatever parses is used
CacheReadScript(lines, r) ==
  LET c == ReadCsv(lines) IN
  IF c.err # NoErr THEN [k |-> "raise", err |-> c.err, frame |-> NoFrame]
  ELSE [k |-> "hit", err |-> NoErr, frame |-> c.frame]

\* a cache read that rejects an entry older than the staleness window
CacheReadWithStaleness(v, lines, r) ==
  IF now - cache.mtime > MaxStalenessSeconds
    THEN [k |-> "miss", err |-> NoErr, frame |-> NoFrame]
    ELSE CASE v = "main" -> CacheReadMain(lines, r)
           [] v = "workflow" -> CacheReadWorkflow(lines, r)
           [] OTHER -> CacheReadScript(lines, r)

CacheRead(v, lines, r) ==
  CASE v = "main" -> CacheReadMain(lines, r)
    [] v = "workflow" -> CacheReadWorkflow(lines, r)
    [] OTHER -> CacheReadScript(lines, r)

\* ------------------------------------------------------------ the cleaners

\* A price cell: a number or NaN.
NaN == [nan |-> TRUE, v |-> 0]
Num(x) == [nan |-> FALSE, v |-> x]

ExactCols == {"Date", "Open", "High", "Low", "Close", "Volume"}

\* str.strip and str.lower on a column label
Strip(c) == IF c = "Close " THEN "Close" ELSE c
Lower(c) ==
  CASE c = "Date" -> "date"
    [] c = "Open" -> "open"
    [] c = "High" -> "high"
    [] c = "Low" -> "low"
    [] c = "Close" -> "close"
    [] c = "Volume" -> "volume"
    [] OTHER -> c

\* `df.last('150D')`: the offset, in days
LAST_DAYS == 150

\* the rows of `rows` at the positions `keep`, in order
RECURSIVE Pick(_, _, _)
Pick(rows, keep, i) ==
  IF i > Len(rows) THEN <<>>
  ELSE (IF i \in keep THEN <<rows[i]>> ELSE <<>>) \o Pick(rows, keep, i + 1)

\* df[~df.index.duplicated(keep='last')] on a DatetimeIndex holding the stamps
DropDuplicatedIndex(rows) ==
  Pick(rows, {i \in 1..Len(rows) : \A j \in (i + 1)..Len(rows) : rows[j].t # rows[i].t}, 1)

\* df.dropna(subset=['Open', 'High', 'Low', 'Close'])
DropNa(rows) ==
  Pick(rows, {i \in 1..Len(rows) : ~rows[i].Open.nan /\ ~rows[i].High.nan
                                   /\ ~rows[i].Low.nan /\ ~rows[i].Close.nan}, 1)

\* df[df['Close'] > 0]; a comparison with NaN is False
PositiveClose(rows) ==
  Pick(rows, {i \in 1..Len(rows) : ~rows[i].Close.nan /\ rows[i].Close.v > 0}, 1)

\* numpy's searchsorted(key, side='right'): a binary search, whatever the order
\* of the array
RECURSIVE SearchSortedRight(_, _, _, _)
SearchSortedRight(rows, key, lo, hi) ==
  IF lo >= hi THEN lo
  ELSE LET mid == lo + ((hi - lo) \div 2)
       IN IF key < rows[mid + 1].t
            THEN SearchSortedRight(rows, key, lo, mid)
            ELSE SearchSortedRight(rows, key, mid + 1, hi)

\* DataFrame.last('150D') on a non-empty DatetimeIndex:
\* iloc[searchsorted(index[-1] - offset, side='right'):]
Last150D(rows) ==
  IF rows = <<>> THEN rows
  ELSE LET start == SearchSortedRight(rows, rows[Len(rows)].t - 24 * LAST_DAYS, 0, Len(rows))
       IN SubSeq(rows, start + 1, Len(rows))

\* df.sort_values(by="Date"): the default sort is not stable, rows of one stamp
\* come out in any order
SortValues(rows) ==
  IF rows = <<>> THEN {rows}
  ELSE {s \in {[i \in 1..Len(rows) |-> rows[f[i]]] : f \in Permutations(1..Len(rows))} :
          \A i \in 1..(Len(s) - 1) : s[i].t <= s[i + 1].t}

Returned(b, c, z, ix, rows) ==
  [status |-> "ok", err |-> NoErr, cols |-> c, tz |-> z, index |-> ix, rows |-> rows]
Raised(how, e) ==
  [status |-> how, err |-> e, cols |-> {}, tz |-> "naive", index |-> "range", rows |-> <<>>]

\* col_mapping of preprocess_data (src/main.py line 24): stripped lower-case
\* label -> target label, for the labels whose stripped lower-case form equals
\* the target label
ColMapping(cols) ==
  {m \in {[from |-> Lower(Strip(c)), to |-> t] : c \in cols, t \in ExactCols} : m.from = m.to}

\* df.rename(columns=col_mapping)
Rename(cols, mapping) ==
  {IF \E m \in mapping : m.from = c THEN (CHOOSE m \in mapping : m.from = c).to ELSE c : c \in cols}

KlineDerived == {"pct_change", "MA5", "MA10", "MA20", "MA30", "MA60"}

\* `if df.empty:` of src/main.py line 45
KlineTooFew(rows) == Len(rows) < 1

\* preprocess_data of src/main.py (line 10).  Every exception ends in
\* sys.exit(1).  The derived columns are named, their values are not modelled.
PreprocessKline(b) ==
  LET cols == Rename(b.cols, ColMapping(b.cols)) IN
  IF ~(ExactCols \subseteq cols) THEN {Raised("exit", "KeyError")}
  ELSE
    LET r1 == IF b.index = "range" THEN b.rows ELSE DropDuplicatedIndex(b.rows)
        r2 == DropNa(r1)
        r3 == PositiveClose(r2)
    IN IF b.index = "range" THEN {Raised("exit", "TypeError:last")}
       ELSE LET r4 == Last150D(r3) IN
         IF KlineTooFew(r4) THEN {Raised("exit", "ValueError:rows")}
         ELSE IF b.index = "datetime:Date" THEN {Raised("exit", "ValueError:reset_index")}
         ELSE {Returned(b, ExactCols \cup KlineDerived \cup {"index"}, b.tz, "range", r4)}

\* a row-count check that rejects only an empty frame
TooFewRowsEmptyOnly(rows) == Len(rows) < 1

\* `if len(df) < 2:`
TooFewRows(rows) == Len(rows) < 2

\* pd.to_datetime(df["Date"], utc=True).dt.tz_convert(HONG_KONG_TZ): the
\* instants stay, a naive stamp is read as UTC
ToHongKong(tz) == "HK"

\* preprocess_data of src/main.py (line 293)
PreprocessMain(b) ==
  LET cols == {Strip(c) : c \in b.cols} IN
  IF ~(TitleCols \subseteq cols) THEN {Raised("raise", "ValueError:columns")}
  ELSE IF "Date" \notin cols THEN {Raised("raise", "KeyError")}
  ELSE {IF TooFewRows(DropNa(s)) THEN Raised("raise", "ValueError:rows")
        ELSE Returned(b, cols, ToHongKong(b.tz), "range", DropNa(s)) : s \in SortValues(b.rows)}

\* preprocess_data of src/.github/workflows/main.py.  The range it prints after
\* sorting is NaT.strftime on a frame without rows, which raises ValueError.
PreprocessWorkflow(b) ==
  LET cols == {Capitalize(c) : c \in b.cols} IN
  IF ~((TitleCols \cup {"Date"}) \subseteq cols) THEN {Raised("raise", "ValueError:columns")}
  ELSE IF b.rows = <<>> THEN {Raised("raise", "ValueError:NaT")}
  ELSE {IF TooFewRows(DropNa(s)) THEN Raised("raise", "ValueError:rows")
        ELSE Returned(b, cols, b.tz, "range", DropNa(s)) : s \in SortValues(b.rows)}

\* the days of the rows handed to the cleaners: the first days and a day more
\* than LAST_DAYS after them
CleanDays == (1..MaxDay) \cup {LAST_DAYS + MaxDay}

\* the rows a frame may hold for a day: complete rows with two different
\* closes, rows lacking one price, a row with a close of zero
RowsOf(d) ==
  {[t |-> 24 * d, Open |-> o, High |-> hi, Low |-> lo, Close |-> c] :
     o \in {Num(5)}, hi \in {Num(5)}, lo \in {Num(5)}, c \in {Num(5), Num(6), Num(0), NaN}} \cup
  {[t |-> 24 * d, Open |-> NaN, High |-> Num(5), Low |-> Num(5), Close |-> Num(5)],
   [t |-> 24 * d, Open |-> Num(5), High |-> NaN, Low |-> Num(5), Close |-> Num(5)],
   [t |-> 24 * d, Open |-> Num(5), High |-> Num(5), Low |-> NaN, Close |-> Num(5)]}

CleanRows == UNION {RowsOf(d) : d \in CleanDays}

\* frames of at most MaxRows rows
MaxRows == 2
RowSeqs == UNION {[1..n -> CleanRows] : n \in 0..MaxRows}

\* the labels, the index and the zone of the frames handed to the cleaners; a
\* DatetimeIndex holds the stamps of the rows
Shapes ==
  {[cols |-> ExactCols, index |-> "range", tz |-> "HK"],
   [cols |-> ExactCols, index |-> "range", tz |-> "naive"],
   [cols |-> ExactCols \ {"Volume"}, index |-> "range", tz |-> "HK"],
   [cols |-> {Lower(c) : c \in ExactCols}, index |-> "range", tz |-> "naive"],
   [cols |-> (ExactCols \ {"Close"}) \cup {"Close "}, index |-> "range", tz |-> "naive"],
   [cols |-> ExactCols \ {"Close"}, index |-> "range", tz |-> "HK"],
   [cols |-> ExactCols, index |-> "datetime", tz |-> "naive"],
   [cols |-> ExactCols, index |-> "datetime:Date", tz |-> "naive"],
   [cols |-> ExactCols \ {"Date"}, index |-> "datetime:Date", tz |-> "naive"]}

NoBatch == [cols |-> {}, index |-> "range", tz |-> "naive", rows |-> <<>>]
NotRun == Raised("none", NoErr)

\* ------------------------------------------------------------ initial state

FullCols == TitleCols \cup {"Date"}

\* What a run may find at the cache path: nothing, a file cut short at zero
\* bytes, a header without rows, a file lacking a column, entries saved by an
\* earlier run for each range of days, and an entry saved with naive stamps.
InitialFiles ==
  {<<>>,
   ToCsv([cols |-> FullCols, tz |-> "HK", rows |-> <<>>]),
   ToCsv([cols |-> FullCols \ {"Close"}, tz |-> "HK", rows |-> Bars(1, MaxDay)]),
   ToCsv([cols |-> TitleCols, tz |-> "HK", rows |-> Bars(1, MaxDay)]),
   ToCsv([cols |-> FullCols, tz |-> "naive", rows |-> Bars(1, MaxDay)])} \cup
  {ToCsv([cols |-> FullCols, tz |-> "HK", rows |-> Bars(r.start, r.end)]) : r \in Requests}

NoFile == [exists |-> FALSE, lines |-> <<>>, mtime |-> 0]
Unread == <<[k |-> "unread"]>>

NewHistory ==
  [absent |-> FALSE, allEmpty |-> TRUE, allExact |-> TRUE, wfailed |-> FALSE,
   downloads |-> 0, seen |-> Unread, age |-> 0, src |-> "none", failedAt |-> "none",
   allLacking |-> TRUE, before |-> NoFile]

NoPrev == [valid |-> FALSE, req |-> [start |-> 1, end |-> 1], frame |-> NoFrame]

Init ==
  /\ variant \in Variants
  /\ now = 0
  /\ cache \in {NoFile} \cup {[exists |-> TRUE, lines |-> l, mtime |-> 0] : l \in InitialFiles}
  /\ pc = [p \in Procs |-> "idle"]
  /\ req = [p \in Procs |-> [start |-> 1, end |-> 1]]
  /\ attempt = [p \in Procs |-> 0]
  /\ df = [p \in Procs |-> NoFrame]
  /\ err = [p \in Procs |-> [kind |-> NoErr, cause |-> NoErr]]
  /\ wpos = [p \in Procs |-> 0]
  /\ slept = [p \in Procs |-> 0]
  /\ calls = [p \in Procs |-> 0]
  /\ h = [p \in Procs |-> NewHistory]
  /\ prev = [p \in Procs |-> NoPrev]
  /\ entries = IF cache.exists THEN {cache.lines} ELSE {}
  /\ batch = NoBatch
  /\ cleaner = "none"
  /\ out = NotRun
  /\ again = NotRun

\* ----------------------------------------------------------------- actions

\* The clock advances.  No script reads the clock or the file's modification
\* time, so the time that passes within a call is not told apart from the time
\* that passes between calls.
Tick ==
  /\ now < MaxClock
  /\ \A p \in Procs : pc[p] \in {"idle", "done", "failed"}
  /\ now' = now + 1
  /\ UNCHANGED <<variant, cache, pc, req, attempt, df, err, wpos, slept, calls, h, prev, entries, cleanVars>>

\* the call found no cache, every download so far delivered the requested span
\* of days, and the cache was written without an error
Scenario(p) == h[p].absent /\ h[p].allExact /\ ~h[p].wfailed

\* the script is started: fetch_and_cache_data(ticker, start_date, end_date, ...)
CallWith(p, R) ==
  /\ pc[p] \in {"idle", "done", "failed"}
  /\ calls[p] < MaxCalls
  /\ \E r \in R : req' = [req EXCEPT ![p] = r]
  /\ pc' = [pc EXCEPT ![p] = "check"]
  /\ calls' = [calls EXCEPT ![p] = @ + 1]
  /\ attempt' = [attempt EXCEPT ![p] = 0]
  /\ df' = [df EXCEPT ![p] = NoFrame]
  /\ err' = [err EXCEPT ![p] = [kind |-> NoErr, cause |-> NoErr]]
  /\ wpos' = [wpos EXCEPT ![p] = 0]
  /\ slept' = [slept EXCEPT ![p] = 0]
  /\ prev' = [prev EXCEPT ![p] =
                IF pc[p] = "done" /\ Scenario(p)
                  THEN [valid |-> TRUE, req |-> req[p], frame |-> df[p]]
                  ELSE NoPrev]
  /\ h' = [h EXCEPT ![p] = [NewHistory EXCEPT !.before = cache]]
  /\ UNCHANGED <<variant, now, cache, entries, cleanVars>>

Call(p) == CallWith(p, Requests)

\* a run started with the script's own START_DATE and END_DATE, once
CallOnce(p) == calls[p] = 0 /\ CallWith(p, {[start |-> 1, end |-> MaxDay]})

\* `if os.path.exists(cache_file):` and the cache read under it
CheckCache(p) ==
  /\ pc[p] = "check"
  /\ IF ~cache.exists
       THEN /\ pc' = [pc EXCEPT ![p] = "download"]
            /\ h' = [h EXCEPT ![p].absent = TRUE]
            /\ UNCHANGED <<df, err>>
       ELSE LET v == CacheRead(variant, cache.lines, req[p])
                seen == [h EXCEPT ![p].seen = cache.lines, ![p].age = now - cache.mtime]
            IN /\ df' = [df EXCEPT ![p] = v.frame]
               /\ CASE v.k = "hit" ->
                         /\ pc' = [pc EXCEPT ![p] = "done"]
                         /\ h' = [seen EXCEPT ![p].src = "cache"]
                         /\ UNCHANGED err
                    [] v.k = "miss" ->
                         /\ pc' = [pc EXCEPT ![p] = "download"]
                         /\ h' = seen
                         /\ UNCHANGED err
                    [] OTHER ->
                         /\ pc' = [pc EXCEPT ![p] = "failed"]
                         /\ h' = [seen EXCEPT ![p].failedAt = "cache"]
                         /\ err' = [err EXCEPT ![p] = [kind |-> v.err, cause |-> NoErr]]
  /\ UNCHANGED <<variant, now, cache, req, attempt, wpos, slept, calls, prev, entries, cleanVars>>

\* `except Exception as e:` of the retry loop (src/stock_analysis.py: of the
\* download step).  While attempts are left the loop sleeps and goes on,
\* otherwise RuntimeError is raised from e.
Failed(p, e) ==
  IF HasAttemptsLeft(variant, attempt[p])
    THEN /\ pc' = [pc EXCEPT ![p] = "sleep"]
         /\ err' = [err EXCEPT ![p] = [kind |-> NoErr, cause |-> e]]
    ELSE /\ pc' = [pc EXCEPT ![p] = "failed"]
         /\ err' = [err EXCEPT ![p] = [kind |-> "RuntimeError", cause |-> e]]

\* one pass of the try block up to the save: the download and its checks
Download(p) ==
  /\ pc[p] = "download"
  /\ \E o \in RemoteOutcomes(req[p]) :
       LET a == AttemptBody(variant, o)
           hh == [h EXCEPT ![p].downloads = @ + 1,
                           ![p].allEmpty = @ /\ ~o.raises /\ o.rows = <<>>,
                           ![p].allLacking = @ /\ LacksColumn(o),
                           ![p].allExact = @ /\ a.err = NoErr
                                             /\ o.rows = Bars(req[p].start, req[p].end)]
       IN IF a.err = NoErr
            THEN /\ df' = [df EXCEPT ![p] = a.frame]
                 /\ pc' = [pc EXCEPT ![p] = "open"]
                 /\ h' = hh
                 /\ UNCHANGED err
            ELSE /\ df' = [df EXCEPT ![p] = NoFrame]
                 /\ Failed(p, a.err)
                 /\ h' = [hh EXCEPT ![p].failedAt =
                            IF HasAttemptsLeft(variant, attempt[p]) THEN @ ELSE "download"]
  /\ UNCHANGED <<variant, now, cache, req, attempt, wpos, slept, calls, prev, entries, cleanVars>>

\* time.sleep(RETRY_DELAY), then the next pass of the loop
Sleep(p) ==
  /\ pc[p] = "sleep"
  /\ slept' = [slept EXCEPT ![p] = @ + RETRY_DELAY]
  /\ attempt' = [attempt EXCEPT ![p] = @ + 1]
  /\ pc' = [pc EXCEPT ![p] = "download"]
  /\ UNCHANGED <<variant, now, cache, req, df, err, wpos, calls, h, prev, entries, cleanVars>>

\* line i of a file is written at the writer's own offset; the lines between
\* the end of the file and that offset stay unfilled
Put(lines, i, l) ==
  [j \in 1..(IF Len(lines) > i THEN Len(lines) ELSE i) |->
     IF j = i THEN l ELSE IF j <= Len(lines) THEN lines[j] ELSE Hole]

\* df.to_csv(cache_file, index=False): the file is opened for writing, which
\* truncates it in place
WriteOpen(p) ==
  /\ pc[p] = "open"
  /\ cache' = [exists |-> TRUE, lines |-> <<>>, mtime |-> now]
  /\ wpos' = [wpos EXCEPT ![p] = 0]
  /\ pc' = [pc EXCEPT ![p] = "writing"]
  /\ entries' = entries \cup {ToCsv(df[p])}
  /\ UNCHANGED <<variant, now, req, attempt, df, err, slept, calls, h, prev, cleanVars>>

\* to_csv writes the next line; after the last one the frame is returned
WriteLine(p) ==
  /\ pc[p] = "writing"
  /\ LET buf == ToCsv(df[p])
         i == wpos[p] + 1
     IN /\ cache' = [exists |-> TRUE, lines |-> Put(cache.lines, i, buf[i]), mtime |-> now]
        /\ wpos' = [wpos EXCEPT ![p] = i]
        /\ IF i = Len(buf)
             THEN /\ pc' = [pc EXCEPT ![p] = "done"]
                  /\ h' = [h EXCEPT ![p].src = "remote"]
             ELSE UNCHANGED <<pc, h>>
  /\ UNCHANGED <<variant, now, req, attempt, df, err, slept, calls, prev, entries, cleanVars>>

\* to_csv raises OSError, when opening the file or part-way through it; the
\* retry loop's handler catches it
WriteFail(p) ==
  /\ pc[p] \in {"open", "writing"}
  /\ Failed(p, "OSError")
  /\ h' = [h EXCEPT ![p].wfailed = TRUE,
                    ![p].failedAt = IF HasAttemptsLeft(variant, attempt[p]) THEN @ ELSE "download"]
  /\ UNCHANGED <<variant, now, cache, req, attempt, df, wpos, slept, calls, prev, entries, cleanVars>>

\* one caller at a time
Next ==
  \/ Tick
  \/ \E p \in Solo : Call(p)
  \/ \E p \in Solo : CheckCache(p)
  \/ \E p \in Solo : Download(p)
  \/ \E p \in Solo : Sleep(p)
  \/ \E p \in Solo : WriteOpen(p)
  \/ \E p \in Solo : WriteLine(p)
  \/ \E p \in Solo : WriteFail(p)

Spec == Init /\ [][Next]_vars

\* two runs of the script on the same cache file
NextConc ==
  \/ \E p \in Procs : CallOnce(p)
  \/ \E p \in Procs : CheckCache(p)
  \/ \E p \in Procs : Download(p)
  \/ \E p \in Procs : Sleep(p)
  \/ \E p \in Procs : WriteOpen(p)
  \/ \E p \in Procs : WriteLine(p)
  \/ \E p \in Procs : WriteFail(p)

\* the two runs start on no cache or on an entry for the full range
InitConc ==
  /\ Init
  /\ cache \in {NoFile,
                [exists |-> TRUE, mtime |-> 0,
                 lines |-> ToCsv([cols |-> FullCols, tz |-> "HK", rows |-> Bars(1, MaxDay)])]}

SpecConc == InitConc /\ [][NextConc]_vars

\* ------------------------------------------------------------ cleaning runs

InitClean ==
  /\ variant = "main"
  /\ now = 0
  /\ cache = NoFile
  /\ pc = [p \in Procs |-> "idle"]
  /\ req = [p \in Procs |-> [start |-> 1, end |-> 1]]
  /\ attempt = [p \in Procs |-> 0]
  /\ df = [p \in Procs |-> NoFrame]
  /\ err = [p \in Procs |-> [kind |-> NoErr, cause |-> NoErr]]
  /\ wpos = [p \in Procs |-> 0]
  /\ slept = [p \in Procs |-> 0]
  /\ calls = [p \in Procs |-> 0]
  /\ h = [p \in Procs |-> NewHistory]
  /\ prev = [p \in Procs |-> NoPrev]
  /\ entries = {}
  /\ batch \in {[cols |-> s.cols, index |-> s.index, tz |-> s.tz, rows |-> r] :
                  s \in Shapes, r \in RowSeqs}
  /\ cleaner = "none"
  /\ out = NotRun
  /\ again = NotRun

\* preprocess_data(raw_df) of plot_stock_kline
CleanKline ==
  /\ cleaner = "none"
  /\ cleaner' = "kline"
  /\ out' \in PreprocessKline(batch)
  /\ UNCHANGED <<batch, again, fetchVars>>

\* preprocess_data(df) of src/main.py's entry point
CleanMain ==
  /\ cleaner = "none"
  /\ cleaner' = "main"
  /\ out' \in PreprocessMain(batch)
  /\ UNCHANGED <<batch, again, fetchVars>>

\* preprocess_data(df) of the workflow's entry point
CleanWorkflow ==
  /\ cleaner = "none"
  /\ cleaner' = "workflow"
  /\ out' \in PreprocessWorkflow(batch)
  /\ UNCHANGED <<batch, again, fetchVars>>

\* the preprocess_data of each script
Preprocess(c, b) ==
  CASE c = "kline" -> PreprocessKline(b)
    [] c = "main" -> PreprocessMain(b)
    [] OTHER -> PreprocessWorkflow(b)

\* the frame a cleaner returned, as its next argument
AsBatch(o) == [cols |-> o.cols, index |-> o.index, tz |-> o.tz, rows |-> o.rows]

\* preprocess_data(preprocess_data(df)): the same function on the frame it
\* returned
CleanAgain ==
  /\ cleaner # "none"
  /\ out.status = "ok"
  /\ again = NotRun
  /\ again' \in Preprocess(cleaner, AsBatch(out))
  /\ UNCHANGED <<batch, cleaner, out, fetchVars>>

NextClean == CleanKline \/ CleanMain \/ CleanWorkflow \/ CleanAgain

SpecClean == InitClean /\ [][NextClean]_vars

\* ------------------------------------------------------------------ claims

\* C1: a call of fetch_and_cache_data that finds no cache file and whose every
\* download returns an empty frame downloads MAX_RETRIES times, no more and no
\* fewer, and then raises RuntimeError from the last ValueError; it never saves
\* or returns a frame.
C1_RetryExhaustion ==
  \A p \in Procs :
    (variant \in FetchVariants /\ h[p].absent /\ h[p].allEmpty /\ h[p].downloads > 0) =>
      /\ h[p].downloads <= MAX_RETRIES
      /\ pc[p] \in {"sleep", "download", "failed"}
      /\ (pc[p] = "failed") = (h[p].downloads = MAX_RETRIES)
      /\ pc[p] = "failed" => err[p] = [kind |-> "RuntimeError", cause |-> "ValueError:empty"]

C1_Witness ==
  \E p \in Procs :
    /\ variant \in FetchVariants /\ h[p].absent /\ h[p].allEmpty
    /\ h[p].downloads = MAX_RETRIES /\ pc[p] = "failed"

\* C2: the cache read of fetch_and_cache_data serves the cached frame only when
\* the cached days contain the requested ones: min <= start_date and
\* max >= end_date.
C2_ServedOnlyWhenCovered ==
  \A p \in Procs :
    (variant \in FetchVariants /\ pc[p] = "done" /\ h[p].src = "cache") =>
      MinOf(Days(df[p])) <= req[p].start /\ MaxOf(Days(df[p])) >= req[p].end

\* C3: a cache file that the cache read of fetch_and_cache_data rejects never
\* makes the call fail: no call ends with an exception raised by the cache read.
C3_RejectedCacheFallsBack ==
  \A p \in Procs : variant \in FetchVariants => h[p].failedAt # "cache"

\* two frames hold the same rows: the same columns, and row by row the same
\* instant and prices, both naive or both aware
SameRows(a, b) ==
  /\ a.cols = b.cols
  /\ (a.tz = "naive") = (b.tz = "naive")
  /\ a.rows = b.rows

\* C4: starting from an absent cache, with a provider that returns valid rows
\* spanning exactly the requested days and a cache file that can be written,
\* the first call of fetch_and_cache_data downloads exactly once and returns
\* those rows, and a second call with the same arguments downloads nothing and
\* returns the same rows from the cache.
C4_SecondCallServedFromCache ==
  \A p \in Procs :
    /\ (variant \in FetchVariants /\ Scenario(p) /\ h[p].downloads > 0) =>
         /\ h[p].downloads = 1
         /\ pc[p] \in {"open", "writing", "done"}
         /\ df[p].rows = Bars(req[p].start, req[p].end)
         /\ pc[p] = "done" => h[p].src = "remote"
    /\ (variant \in FetchVariants /\ prev[p].valid /\ req[p] = prev[p].req /\ pc[p] # "check") =>
         /\ pc[p] = "done"
         /\ h[p].downloads = 0
         /\ h[p].src = "cache"
         /\ SameRows(df[p], prev[p].frame)

C4_Witness ==
  \E p \in Procs :
    /\ variant \in FetchVariants /\ prev[p].valid /\ req[p] = prev[p].req
    /\ pc[p] = "done" /\ h[p].src = "cache" /\ Len(df[p].rows) = MaxDay

\* the lines of an entry saved by fetch_and_cache_data for exactly the days r
EntryFor(r) == ToCsv([cols |-> FullCols, tz |-> "HK", rows |-> Bars(r.start, r.end)])

C6_WriteFailureNotFatal ==
  \A p \in Procs :
    (variant \in FetchVariants /\ h[p].wfailed) => pc[p] = "done"

\* C7: a cache read never observes a partially written entry, every read sees
\* a complete entry; and once no save is in progress the file holds one
\* writer's complete entry.
C7_ReadsSeeCompleteEntries ==
  /\ \A p \in Procs : h[p].seen # Unread => h[p].seen \in entries
  /\ (cache.exists /\ \A p \in Procs : pc[p] \notin {"open", "writing"} /\ ~h[p].wfailed)
       => cache.lines \in entries

\* the last row of `rows` that carries the stamp t
LastOf(rows, t) == rows[MaxOf({j \in 1..Len(rows) : rows[j].t = t})]

\* C8: the frame preprocess_data returns has strictly increasing stamps, and a
\* stamp that several input rows carry is carried in the output by no row
\* other than the last of them in input order.
C8_StrictlyIncreasingLastWins ==
  out.status = "ok" =>
    /\ \A i \in 1..(Len(out.rows) - 1) : out.rows[i].t < out.rows[i + 1].t
    /\ \A i \in 1..Len(batch.rows) : \A k \in 1..Len(out.rows) :
         out.rows[k].t = batch.rows[i].t => out.rows[k] = LastOf(batch.rows, batch.rows[i].t)

\* the input rows with all four prices
Usable(rows) ==
  Cardinality({i \in 1..Len(rows) : ~rows[i].Open.nan /\ ~rows[i].High.nan
                                    /\ ~rows[i].Low.nan /\ ~rows[i].Close.nan})

C10_ReturnedRowsUsable ==
  out.status = "ok" =>
    \A k \in 1..Len(out.rows) :
      /\ ~out.rows[k].Open.nan /\ ~out.rows[k].High.nan
      /\ ~out.rows[k].Low.nan /\ ~out.rows[k].Close.nan
      /\ out.rows[k].Close.v > 0

\* C11: cleaning is idempotent: whenever preprocess_data returned a frame,
\* preprocess_data applied to that frame returns too, with the same rows in the
\* same order.
C11_CleaningIdempotent ==
  (again.status # "none") => (again.status = "ok" /\ again.rows = out.rows)

\* a file that parses to rows whose Date column carries no offset
NaiveEntry(lines) ==
  LET c == ReadCsv(lines) IN c.err = NoErr /\ c.frame.rows # <<>> /\ c.frame.tz = "naive"

\* C12: a cache entry whose Date column is timezone-naive is never served by
\* the cache read of fetch_and_cache_data: a call that read such an entry does
\* not return it as a cache hit.
C12_NaiveEntryNeverServed ==
  \A p \in Procs :
    (variant \in FetchVariants /\ NaiveEntry(h[p].seen)) =>
      ~(pc[p] = "done" /\ h[p].src = "cache")

\* C13: in the retry loop of fetch_and_cache_data a non-empty download that
\* lacks one of Open, High, Low, Close is handled like an empty one.  While
\* every download of a call was of that kind: each consumed one attempt, the
\* call slept RETRY_DELAY after each attempt but the last, the cache file is as
\* the call found it, and the call fails, with RuntimeError raised from the
\* column error, exactly when MAX_RETRIES downloads were made.
C13_MissingColumnRetried ==
  \A p \in Procs :
    (variant \in FetchVariants /\ h[p].downloads > 0 /\ h[p].allLacking) =>
      /\ pc[p] \in {"sleep", "download", "failed"}
      /\ h[p].downloads <= MAX_RETRIES
      /\ attempt[p] = (IF pc[p] = "download" THEN h[p].downloads ELSE h[p].downloads - 1)
      /\ slept[p] = RETRY_DELAY * attempt[p]
      /\ (pc[p] = "failed") = (h[p].downloads = MAX_RETRIES)
      /\ pc[p] = "failed" => err[p] = [kind |-> "RuntimeError", cause |-> "ValueError:columns"]
      /\ cache = h[p].before

\* a call whose three downloads all lacked a column has failed, having slept
\* twice, beside a cache file it had found and rejected
C13_Witness ==
  \E p \in Procs :
    /\ variant \in FetchVariants /\ h[p].allLacking /\ h[p].downloads = MAX_RETRIES
    /\ pc[p] = "failed" /\ slept[p] = RETRY_DELAY * (MAX_RETRIES - 1)
    /\ h[p].before.exists

\* the content of the cache file is what the call found
SameContent(p) == cache.exists = h[p].before.exists /\ cache.lines = h[p].before.lines

\* C14: the cache file is changed only by a download attempt that returned
\* rows and passed the column check, and then it holds the full new series.
\* After a cache hit, after every failed attempt, and after a call that ended
\* in retry exhaustion or in a cache-validation error the file's content is
\* what the call found; no step removes the file.
C14_CacheChangedOnlyBySuccess ==
  \A p \in Procs :
    (variant \in FetchVariants /\ calls[p] > 0) =>
      /\ (pc[p] = "done" /\ h[p].src = "remote") =>
            cache.exists /\ cache.lines = ToCsv(df[p])
      /\ (pc[p] = "done" /\ h[p].src = "cache") => SameContent(p)
      /\ pc[p] \in {"check", "download", "sleep", "failed"} => SameContent(p)
      /\ h[p].before.exists => cache.exists

====
